---------------------------- MODULE Spec2Model ----------------------------
(***************************************************************************)
(* Iron Lady course manager (src/app.py) and FAQ chatbot (src/chatbot.py). *)
(*                                                                         *)
(* Text that the program inspects (user input, keywords, backend content,  *)
(* ratings, replies) is a sequence of one-character strings, so that       *)
(* lower(), strip(), split() and the substring test are computed.  Text    *)
(* the program only stores (course titles, names, e-mail addresses) is an  *)
(* opaque string.                                                          *)
(***************************************************************************)
EXTENDS Integers, Sequences, FiniteSets, TLC

VARIABLES
    chatbot_client,   \* IronLadyChatbot.openai_client: TRUE iff a client object is held
    chat,             \* the last call made on the chatbot and what it observed
    openai_client,    \* CourseManager.openai_client: TRUE iff a client object is held
    courses,          \* CourseManager.courses: id -> record
    feedback,         \* CourseManager.feedback: list of records
    next_course_id,   \* CourseManager.next_course_id
    next_feedback_id, \* CourseManager.next_feedback_id
    clock,            \* datetime.now(), in seconds since construction
    result,           \* the last CourseManager call and what it returned
    add_calls,        \* history: number of add_course calls that returned
    freed,            \* history: identifiers removed by delete_course
    threads           \* server worker threads inside add_course / add_feedback

store == <<courses, feedback, next_course_id, next_feedback_id, openai_client>>
vars == <<chatbot_client, chat, openai_client, courses, feedback,
          next_course_id, next_feedback_id, clock, result, add_calls,
          freed, threads>>

-----------------------------------------------------------------------------
(* Bounds *)

\* Words per generated chatbot input.
MaxWords == 2
\* add_course and load_sample_data are not called once next_course_id
\* exceeds this.
MaxCourseId == 4
\* add_feedback is not called once the list has this many entries.
MaxFeedback == 2
\* The clock does not advance past this second.
MaxClock == 1

-----------------------------------------------------------------------------
(* Python str primitives *)

Min(S) == CHOOSE x \in S : \A y \in S : x <= y
Max(S) == CHOOSE x \in S : \A y \in S : x >= y

\* The ASCII characters str.strip() and int() treat as whitespace: space, \t, \n, \r, \f, vertical tab (0x0b) and the four
\* separators 0x1c..0x1f.
Whitespace ==
    {" ", "\t", "\n", "\r", "\f", "", "", "", "", ""}

UpperCase == <<"A","B","C","D","E","F","G","H","I","J","K","L","M",
               "N","O","P","Q","R","S","T","U","V","W","X","Y","Z">>
LowerCase == <<"a","b","c","d","e","f","g","h","i","j","k","l","m",
               "n","o","p","q","r","s","t","u","v","w","x","y","z">>

\* str.lower() on one character.
lower_char(c) ==
    IF \E i \in 1..26 : UpperCase[i] = c
    THEN LowerCase[CHOOSE i \in 1..26 : UpperCase[i] = c]
    ELSE c

\* str.lower()
lower(s) == [i \in 1..Len(s) |-> lower_char(s[i])]

\* str.strip(): drop leading and trailing whitespace.
strip(s) ==
    LET keep == {i \in 1..Len(s) : s[i] \notin Whitespace}
    IN  IF keep = {} THEN <<>> ELSE SubSeq(s, Min(keep), Max(keep))

\* str.strip(chars): drop leading and trailing characters that are in chars.
strip_chars(s, chars) ==
    LET keep == {i \in 1..Len(s) : s[i] \notin chars}
    IN  IF keep = {} THEN <<>> ELSE SubSeq(s, Min(keep), Max(keep))

\* `sub in s` for strings: scan s from the left for an occurrence of sub.
RECURSIVE str_in(_, _)
str_in(sub, s) ==
    IF Len(s) < Len(sub) THEN FALSE
    ELSE IF SubSeq(s, 1, Len(sub)) = sub THEN TRUE
    ELSE str_in(sub, Tail(s))

\* str.split(sep) for a one-character separator.
RECURSIVE split(_, _)
split(s, sep) ==
    IF \A i \in 1..Len(s) : s[i] # sep THEN <<s>>
    ELSE LET k == Min({i \in 1..Len(s) : s[i] = sep})
         IN  <<SubSeq(s, 1, k - 1)>> \o split(SubSeq(s, k + 1, Len(s)), sep)

\* Optional[str]: None, or a string.
None == [is_none |-> TRUE, val |-> <<>>]
Some(s) == [is_none |-> FALSE, val |-> s]
\* Python truthiness of an Optional[str]: None and "" are false.
Truthy(o) == ~o.is_none /\ o.val # <<>>

-----------------------------------------------------------------------------
(* chatbot.py: the FAQ tables *)

\* Absent intent (find_intent returns None).
NoIntent == "None"

\* self.keywords, in dict insertion order.
keywords ==
  <<
    [intent |-> "programs", keywords |-> <<
       <<"p","r","o","g","r","a","m">>,
       <<"c","o","u","r","s","e">>,
       <<"o","f","f","e","r">>,
       <<"a","v","a","i","l","a","b","l","e">>,
       <<"w","h","a","t">>,
       <<"s","e","r","v","i","c","e","s">>
    >>],
    [intent |-> "duration", keywords |-> <<
       <<"d","u","r","a","t","i","o","n">>,
       <<"t","i","m","e">>,
       <<"l","o","n","g">>,
       <<"p","e","r","i","o","d">>,
       <<"m","o","n","t","h","s">>,
       <<"w","e","e","k","s">>
    >>],
    [intent |-> "format", keywords |-> <<
       <<"o","n","l","i","n","e">>,
       <<"o","f","f","l","i","n","e">>,
       <<"m","o","d","e">>,
       <<"f","o","r","m","a","t">>,
       <<"w","h","e","r","e">>,
       <<"l","o","c","a","t","i","o","n">>
    >>],
    [intent |-> "certificates", keywords |-> <<
       <<"c","e","r","t","i","f","i","c","a","t","e">>,
       <<"c","e","r","t","i","f","i","c","a","t","i","o","n">>,
       <<"c","r","e","d","e","n","t","i","a","l">>,
       <<"b","a","d","g","e">>
    >>],
    [intent |-> "mentors", keywords |-> <<
       <<"m","e","n","t","o","r">>,
       <<"c","o","a","c","h">>,
       <<"t","e","a","c","h","e","r">>,
       <<"i","n","s","t","r","u","c","t","o","r">>,
       <<"g","u","i","d","e">>,
       <<"e","x","p","e","r","t">>
    >>]
  >>

\* self.faq_data[intent]["answer"].  Each answer is a long literal whose
\* remaining lines use characters outside the model's alphabet; it is
\* represented by its first line, which is distinct for each topic.
faq_data ==
    [programs |->
      <<"I","r","o","n"," ","L","a","d","y"," ","o","f","f","e","r","s",
      " ","c","o","m","p","r","e","h","e","n","s","i","v","e"," ","l",
      "e","a","d","e","r","s","h","i","p"," ","p","r","o","g","r","a",
      "m","s"," ","i","n","c","l","u","d","i","n","g",":">>,
     duration |->
      <<"P","r","o","g","r","a","m"," ","d","u","r","a","t","i","o","n",
      "s"," ","v","a","r","y"," ","b","a","s","e","d"," ","o","n"," ",
      "t","h","e"," ","c","o","u","r","s","e",":">>,
     format |->
      <<"I","r","o","n"," ","L","a","d","y"," ","o","f","f","e","r","s",
      " ","f","l","e","x","i","b","l","e"," ","l","e","a","r","n","i",
      "n","g"," ","f","o","r","m","a","t","s",":">>,
     certificates |->
      <<"Y","e","s","!"," ","I","r","o","n"," ","L","a","d","y"," ","p",
      "r","o","v","i","d","e","s"," ","c","o","m","p","r","e","h","e",
      "n","s","i","v","e"," ","c","e","r","t","i","f","i","c","a","t",
      "i","o","n",":">>,
     mentors |->
      <<"O","u","r"," ","e","x","p","e","r","t"," ","m","e","n","t","o",
      "r"," ","t","e","a","m"," ","i","n","c","l","u","d","e","s",":">>]

\* The literal returned for blank input.
PromptForInput ==
      <<"P","l","e","a","s","e"," ","a","s","k"," ","m","e"," ","s","o",
      "m","e","t","h","i","n","g"," ","a","b","o","u","t"," ","I","r",
      "o","n"," ","L","a","d","y","'","s"," ","l","e","a","d","e","r",
      "s","h","i","p"," ","p","r","o","g","r","a","m","s","!">>

\* The literal returned when neither source has an answer (first line).
MenuMessage ==
      <<"I","'","d"," ","b","e"," ","h","a","p","p","y"," ","t","o"," ",
      "h","e","l","p"," ","y","o","u"," ","l","e","a","r","n"," ","a",
      "b","o","u","t"," ","I","r","o","n"," ","L","a","d","y","'","s",
      " ","l","e","a","d","e","r","s","h","i","p"," ","p","r","o","g",
      "r","a","m","s","!"," ">>

-----------------------------------------------------------------------------
(* chatbot.py: operations *)

\* setup_openai (the same method in both classes): with an API key the
\* attribute becomes the new client, or None when the client constructor
\* raises; without a key the attribute is left as it is.
setup_openai(current, api_key, ctor_ok) ==
    IF api_key THEN ctor_ok ELSE current

\* Variant of any_keyword_in: the keyword is compared with the whole input
\* (== where the code has in).
any_keyword_in_equal(kws, user_input_lower) ==
    \E k \in 1..Len(kws) : kws[k] = user_input_lower

\* any(keyword in user_input_lower for keyword in keywords)
any_keyword_in(kws, user_input_lower) ==
    \E k \in 1..Len(kws) : str_in(kws[k], user_input_lower)

\* Variant of find_intent_from: the loop does not return at the first
\* matching topic, so the last matching topic is the result.
RECURSIVE find_intent_from_last(_, _)
find_intent_from_last(i, user_input_lower) ==
    IF i > Len(keywords) THEN NoIntent
    ELSE LET rest == find_intent_from_last(i + 1, user_input_lower)
         IN  IF rest # NoIntent THEN rest
             ELSE IF any_keyword_in(keywords[i].keywords, user_input_lower)
                  THEN keywords[i].intent
                  ELSE NoIntent

\* The for loop of find_intent over self.keywords.items(), from entry i on.
RECURSIVE find_intent_from(_, _)
find_intent_from(i, user_input_lower) ==
    IF i > Len(keywords) THEN NoIntent
    ELSE IF any_keyword_in(keywords[i].keywords, user_input_lower)
         THEN keywords[i].intent
         ELSE find_intent_from(i + 1, user_input_lower)

find_intent(user_input) == find_intent_from(1, lower(user_input))

get_faq_response(intent) ==
    IF intent \in DOMAIN faq_data THEN Some(faq_data[intent]) ELSE None

\* Variant of get_ai_response: the try has no except, so a failing call
\* raises out of get_ai_response.
get_ai_response_uncaught(client, user_input, context, backend) ==
    IF ~client THEN [ret |-> None, exc |-> FALSE, calls |-> <<>>]
    ELSE IF backend.kind = "content"
         THEN [ret |-> Some(strip(backend.content)), exc |-> FALSE,
               calls |-> <<"create">>]
         ELSE [ret |-> None, exc |-> TRUE, calls |-> <<"create">>]

\* What chat.completions.create does when called:
\*   kind "raise"   - the call raises (network error, timeout, API error)
\*   kind "null"    - it returns a message whose content is None
\*   kind "content" - it returns a message with the given content
\* get_ai_response returns ret, whether an exception escapes (exc), and the
\* backend calls it made.
get_ai_response(client, user_input, context, backend) ==
    IF ~client THEN [ret |-> None, exc |-> FALSE, calls |-> <<>>]
    ELSE IF backend.kind = "content"
         THEN [ret |-> Some(strip(backend.content)), exc |-> FALSE,
               calls |-> <<"create">>]
         \* the call raised, or None.strip() raised: caught by the except
         ELSE [ret |-> None, exc |-> FALSE, calls |-> <<"create">>]

\* Variant of get_response: the canned answer is preferred to the generated
\* text.
get_response_faq_first(client, user_input, backend) ==
    IF strip(user_input) = <<>>
    THEN [reply |-> PromptForInput, branch |-> "prompt", intent |-> NoIntent,
          exc |-> FALSE, calls |-> <<>>]
    ELSE
      LET intent == find_intent(user_input)
          faq_response == IF intent # NoIntent THEN get_faq_response(intent)
                          ELSE None
          context == IF Truthy(faq_response) THEN faq_response.val ELSE <<>>
          ai == get_ai_response(client, user_input, context, backend)
          calls == <<"find_intent">>
                   \o (IF intent # NoIntent THEN <<"get_faq_response">> ELSE <<>>)
                   \o <<"get_ai_response">> \o ai.calls
      IN  IF ai.exc
          THEN [reply |-> <<>>, branch |-> "raise", intent |-> intent,
                exc |-> TRUE, calls |-> calls]
          ELSE IF Truthy(faq_response)
          THEN [reply |-> faq_response.val, branch |-> "faq", intent |-> intent,
                exc |-> FALSE, calls |-> calls]
          ELSE IF Truthy(ai.ret)
          THEN [reply |-> ai.ret.val, branch |-> "ai", intent |-> intent,
                exc |-> FALSE, calls |-> calls]
          ELSE [reply |-> MenuMessage, branch |-> "menu", intent |-> intent,
                exc |-> FALSE, calls |-> calls]

\* Variant of get_response: the blank test is `not user_input`, without
\* strip().
get_response_no_strip(client, user_input, backend) ==
    IF user_input = <<>>
    THEN [reply |-> PromptForInput, branch |-> "prompt", intent |-> NoIntent,
          exc |-> FALSE, calls |-> <<>>]
    ELSE
      LET intent == find_intent(user_input)
          faq_response == IF intent # NoIntent THEN get_faq_response(intent)
                          ELSE None
          context == IF Truthy(faq_response) THEN faq_response.val ELSE <<>>
          ai == get_ai_response(client, user_input, context, backend)
          calls == <<"find_intent">>
                   \o (IF intent # NoIntent THEN <<"get_faq_response">> ELSE <<>>)
                   \o <<"get_ai_response">> \o ai.calls
      IN  IF ai.exc
          THEN [reply |-> <<>>, branch |-> "raise", intent |-> intent,
                exc |-> TRUE, calls |-> calls]
          ELSE IF Truthy(ai.ret)
          THEN [reply |-> ai.ret.val, branch |-> "ai", intent |-> intent,
                exc |-> FALSE, calls |-> calls]
          ELSE IF Truthy(faq_response)
          THEN [reply |-> faq_response.val, branch |-> "faq", intent |-> intent,
                exc |-> FALSE, calls |-> calls]
          ELSE [reply |-> MenuMessage, branch |-> "menu", intent |-> intent,
                exc |-> FALSE, calls |-> calls]

get_response(client, user_input, backend) ==
    IF strip(user_input) = <<>>
    THEN [reply |-> PromptForInput, branch |-> "prompt", intent |-> NoIntent,
          exc |-> FALSE, calls |-> <<>>]
    ELSE
      LET intent == find_intent(user_input)
          faq_response == IF intent # NoIntent THEN get_faq_response(intent)
                          ELSE None
          context == IF Truthy(faq_response) THEN faq_response.val ELSE <<>>
          ai == get_ai_response(client, user_input, context, backend)
          calls == <<"find_intent">>
                   \o (IF intent # NoIntent THEN <<"get_faq_response">> ELSE <<>>)
                   \o <<"get_ai_response">> \o ai.calls
      IN  IF ai.exc
          THEN [reply |-> <<>>, branch |-> "raise", intent |-> intent,
                exc |-> TRUE, calls |-> calls]
          ELSE IF Truthy(ai.ret)
          THEN [reply |-> ai.ret.val, branch |-> "ai", intent |-> intent,
                exc |-> FALSE, calls |-> calls]
          ELSE IF Truthy(faq_response)
          THEN [reply |-> faq_response.val, branch |-> "faq", intent |-> intent,
                exc |-> FALSE, calls |-> calls]
          ELSE [reply |-> MenuMessage, branch |-> "menu", intent |-> intent,
                exc |-> FALSE, calls |-> calls]

-----------------------------------------------------------------------------
(* chatbot.py: inputs and calls *)

Words ==
    { <<"p","r","o","g","r","a","m">>, <<"l","o","n","g">>,
      <<"W","h","e","r","e">>, <<"b","a","d","g","e">>,
      <<"M","E","N","T","O","R">>, <<"l","o">>, <<"n","g">>,
      <<"h","e","l","l","o">>, <<" ">>, <<"","\n">>, <<"\t","i","s">> }

RECURSIVE WordSeqs(_)
WordSeqs(n) ==
    IF n = 0 THEN {<<>>}
    ELSE LET shorter == WordSeqs(n - 1)
         IN  shorter \cup {s \o w : s \in shorter, w \in Words}

HowLongIsTheProgram ==
      <<"h","o","w"," ","l","o","n","g"," ","i","s"," ","t","h","e"," ",
      "p","r","o","g","r","a","m">>

\* user_input values.
Inputs == WordSeqs(MaxWords) \cup {HowLongIsTheProgram}

\* message.content values of a successful backend call.
Contents ==
    { <<>>, <<" ">>, <<"\n","","\t">>, <<"H","i">>,
      <<""," ","H","i","\n">>,
      <<"O","k"," ","g","o">> }

Backends ==
    {[kind |-> "raise", content |-> <<>>], [kind |-> "null", content |-> <<>>]}
    \cup {[kind |-> "content", content |-> c] : c \in Contents}

NoBackend == [kind |-> "raise", content |-> <<>>]

ChatIdle ==
    [op |-> "init", user_input |-> <<>>, backend |-> NoBackend,
     reply |-> <<>>, branch |-> "", intent |-> NoIntent, exc |-> FALSE,
     calls |-> <<>>]

\* IronLadyChatbot(): api_chat builds a new chatbot for every request, and
\* the chatbot keeps nothing from one call to the next; each chatbot built
\* here serves one call.
ChatbotInit ==
    /\ \E api_key \in BOOLEAN, ctor_ok \in BOOLEAN :
          chatbot_client' = setup_openai(FALSE, api_key, ctor_ok)
    /\ chat' = ChatIdle
    /\ UNCHANGED <<store, clock, result, add_calls, freed, threads>>

GetResponse ==
    /\ chat.op = "init"
    /\ \E user_input \in Inputs, backend \in Backends :
          LET r == get_response(chatbot_client, user_input, backend)
          IN  chat' = [op |-> "get_response", user_input |-> user_input,
                       backend |-> backend, reply |-> r.reply,
                       branch |-> r.branch, intent |-> r.intent,
                       exc |-> r.exc, calls |-> r.calls]
    /\ UNCHANGED <<chatbot_client, store, clock, result, add_calls, freed,
                   threads>>

FindIntent ==
    /\ chat.op = "init"
    /\ \E user_input \in Inputs :
          chat' = [ChatIdle EXCEPT !.op = "find_intent",
                                   !.user_input = user_input,
                                   !.intent = find_intent(user_input)]
    /\ UNCHANGED <<chatbot_client, store, clock, result, add_calls, freed,
                   threads>>

-----------------------------------------------------------------------------
(* app.py: CourseManager data *)

Fields == <<"title", "description", "duration", "format", "price", "category">>

\* load_sample_data.sample_courses (the prices without the currency sign).
sample_courses ==
    << [title |-> "Executive Leadership Development",
        description |-> "Comprehensive 6-month program for senior executives",
        duration |-> "6 months", format |-> "Hybrid",
        price |-> "1,50,000", category |-> "Executive"],
       [title |-> "Women in Leadership Bootcamp",
        description |-> "Intensive 3-month bootcamp for emerging women leaders",
        duration |-> "3 months", format |-> "Online",
        price |-> "75,000", category |-> "Leadership"],
       [title |-> "Personal Branding Program",
        description |-> "Build your professional brand and communication skills",
        duration |-> "3 months", format |-> "Hybrid",
        price |-> "50,000", category |-> "Branding"] >>

NewCourse ==
    [title |-> "Negotiation Lab", description |-> "Negotiation practice",
     duration |-> "1 month", format |-> "Offline", price |-> "20,000",
     category |-> "Skills"]

\* course_data without the key "price".
NoPriceCourse ==
    [f \in {"title", "description", "duration", "format", "category"}
       |-> NewCourse[f]]

\* course_data values passed to add_course and update_course.
CourseInputs == {NewCourse, NoPriceCourse}

\* course_id values passed to update_course and delete_course: one sample
\* course, which is absent once deleted, and 0, which is never assigned.
CourseIds == {2, 0}

\* course_id values passed to get_course: those, and the first identifier
\* assigned after construction.
LookupIds == CourseIds \cup {Len(sample_courses) + 1}

\* rating values of the feedback form.
Ratings ==
    { <<" ","","1","_","0","\n">>, <<"a">>, <<"1","_","_","0">>,
      <<"","7">> }

FeedbackInputs ==
    { [name |-> "Asha", email |-> "asha@example.com",
       course |-> "Women in Leadership Bootcamp", rating |-> r,
       feedback |-> "Very useful"] : r \in Ratings }

\* message.content values of a successful suggestion or summary call.
HelperContents ==
    { <<"-"," ","A","\n","\n"," ","B"," ">> }

HelperBackends ==
    {[kind |-> "raise", content |-> <<>>], [kind |-> "null", content |-> <<>>]}
    \cup {[kind |-> "content", content |-> c] : c \in HelperContents}

\* The list returned by generate_course_suggestions without a client.
SuggestionsNoClient ==
    << <<"A","d","v","a","n","c","e","d"," ","L","e","a","d","e","r","s",
      "h","i","p"," ","C","o","m","m","u","n","i","c","a","t","i","o",
      "n">>,
       <<"D","i","g","i","t","a","l"," ","T","r","a","n","s","f","o","r",
      "m","a","t","i","o","n"," ","f","o","r"," ","L","e","a","d","e",
      "r","s">>,
       <<"E","m","o","t","i","o","n","a","l"," ","I","n","t","e","l","l",
      "i","g","e","n","c","e"," ","i","n"," ","L","e","a","d","e","r",
      "s","h","i","p">>,
       <<"S","t","r","a","t","e","g","i","c"," ","D","e","c","i","s","i",
      "o","n"," ","M","a","k","i","n","g"," ","W","o","r","k","s","h",
      "o","p">> >>

\* The list returned by generate_course_suggestions when the call raises.
SuggestionsOnError ==
    << <<"A","d","v","a","n","c","e","d"," ","L","e","a","d","e","r","s",
      "h","i","p"," ","C","o","m","m","u","n","i","c","a","t","i","o",
      "n">>,
       <<"D","i","g","i","t","a","l"," ","T","r","a","n","s","f","o","r",
      "m","a","t","i","o","n"," ","f","o","r"," ","L","e","a","d","e",
      "r","s">> >>

NoFeedbackMessage ==
      <<"N","o"," ","f","e","e","d","b","a","c","k"," ","a","v","a","i",
      "l","a","b","l","e"," ","f","o","r"," ","s","u","m","m","a","r",
      "y",".">>

UnableMessage ==
      <<"U","n","a","b","l","e"," ","t","o"," ","g","e","n","e","r","a",
      "t","e"," ","f","e","e","d","b","a","c","k"," ","s","u","m","m",
      "a","r","y"," ","a","t"," ","t","h","i","s"," ","t","i","m","e",
      ".">>

-----------------------------------------------------------------------------
(* app.py: CourseManager operations *)

Digits == <<"0","1","2","3","4","5","6","7","8","9">>
IsDigit(c) == \E d \in 1..10 : Digits[d] = c
DigitVal(c) == (CHOOSE d \in 1..10 : Digits[d] = c) - 1

RECURSIVE DigitsVal(_)
DigitsVal(s) ==
    IF s = <<>> THEN 0
    ELSE 10 * DigitsVal(SubSeq(s, 1, Len(s) - 1)) + DigitVal(s[Len(s)])

\* The characters int() skips around the number in an ASCII string: space,
\* \t, \n, \r, \f and vertical tab, not the separators 0x1c..0x1f that
\* str.strip() removes.
IntWhitespace == {" ", "\t", "\n", "\r", "\f", ""}

\* int(str): surrounding IntWhitespace is ignored, then an optional sign and
\* one or more digits, where single underscores may stand between digits
\* ("1_0" is 10); anything else raises ValueError.
int(s) ==
    LET t == strip_chars(s, IntWhitespace)
        signed == t # <<>> /\ t[1] \in {"+", "-"}
        body == IF signed THEN Tail(t) ELSE t
        wellformed ==
            /\ body # <<>>
            /\ \A i \in 1..Len(body) : IsDigit(body[i]) \/ body[i] = "_"
            /\ IsDigit(body[1]) /\ IsDigit(body[Len(body)])
            /\ \A i \in 1..(Len(body) - 1) :
                  ~(body[i] = "_" /\ body[i + 1] = "_")
        digits == SelectSeq(body, IsDigit)
    IN  IF wellformed
        THEN [ok |-> TRUE,
              val |-> IF signed /\ t[1] = "-" THEN 0 - DigitsVal(digits)
                      ELSE DigitsVal(digits)]
        ELSE [ok |-> FALSE, val |-> 0]

\* course_data[f] raises KeyError for some field f.
KeyError(course_data) == \E i \in 1..Len(Fields) : Fields[i] \notin DOMAIN course_data

NoData == <<>>

\* The record of a call: its arguments, and what it returned, which is an
\* identifier (ret), a success flag (ok), a text, a list of texts or an
\* optional course record (found), or the exception that escaped it (exc).
Result(op, course_id, data, ret, exc) ==
    [op |-> op, course_id |-> course_id, data |-> data, ret |-> ret,
     ok |-> FALSE, text |-> <<>>, list |-> <<>>, found |-> <<>>, exc |-> exc]
FlagResult(op, course_id, data, ok, exc) ==
    [Result(op, course_id, data, 0, exc) EXCEPT !.ok = ok]
TextResult(op, course_id, data, text, exc) ==
    [Result(op, course_id, data, 0, exc) EXCEPT !.text = text]
ListResult(op, course_id, data, list, exc) ==
    [Result(op, course_id, data, 0, exc) EXCEPT !.list = list]
FoundResult(op, course_id, data, found, exc) ==
    [Result(op, course_id, data, 0, exc) EXCEPT !.found = found]

\* datetime.now().strftime(...) is the clock reading at second resolution.
\* add_course reads it twice: created_at at the current second, updated_at
\* at second `later` (the same second or the next).
\* Variant of add_course: the identifier is len(self.courses) + 1.
add_course_count(course_data, later) ==
    LET course_id == Cardinality(DOMAIN courses) + 1
    IN  IF KeyError(course_data)
        THEN /\ result' = Result("add_course", 0, course_data, 0, "KeyError")
             /\ UNCHANGED <<store, clock, add_calls, freed>>
        ELSE /\ courses' =
                   [k \in DOMAIN courses \cup {course_id} |->
                      IF k = course_id
                      THEN [id |-> course_id,
                            title |-> course_data["title"],
                            description |-> course_data["description"],
                            duration |-> course_data["duration"],
                            format |-> course_data["format"],
                            price |-> course_data["price"],
                            category |-> course_data["category"],
                            created_at |-> clock,
                            updated_at |-> later]
                      ELSE courses[k]]
             /\ next_course_id' = next_course_id + 1
             /\ clock' = later
             /\ add_calls' = add_calls + 1
             /\ result' = Result("add_course", 0, course_data, course_id, "")
             /\ UNCHANGED <<feedback, next_feedback_id, openai_client, freed>>

add_course(course_data, later) ==
    LET course_id == next_course_id
    IN  IF KeyError(course_data)
        THEN /\ result' = Result("add_course", 0, course_data, 0, "KeyError")
             /\ UNCHANGED <<store, clock, add_calls, freed>>
        ELSE /\ courses' =
                   [k \in DOMAIN courses \cup {course_id} |->
                      IF k = course_id
                      THEN [id |-> course_id,
                            title |-> course_data["title"],
                            description |-> course_data["description"],
                            duration |-> course_data["duration"],
                            format |-> course_data["format"],
                            price |-> course_data["price"],
                            category |-> course_data["category"],
                            created_at |-> clock,
                            updated_at |-> later]
                      ELSE courses[k]]
             /\ next_course_id' = next_course_id + 1
             /\ clock' = later
             /\ add_calls' = add_calls + 1
             /\ result' = Result("add_course", 0, course_data, course_id, "")
             /\ UNCHANGED <<feedback, next_feedback_id, openai_client, freed>>

get_course(course_id) ==
    /\ result' = FoundResult("get_course", course_id, NoData,
                        IF course_id \in DOMAIN courses
                        THEN <<courses[course_id]>> ELSE <<>>, "")
    /\ UNCHANGED <<store, clock, add_calls, freed>>

\* Variant of update_course: an absent identifier is inserted instead of
\* being refused.
update_course_upsert(course_id, course_data) ==
    IF course_id \in DOMAIN courses
    THEN IF KeyError(course_data)
         THEN /\ result' = FlagResult("update_course", course_id, course_data,
                                  FALSE, "KeyError")
              /\ UNCHANGED <<store, clock, add_calls, freed>>
         ELSE /\ courses' =
                    [courses EXCEPT ![course_id] =
                       [@ EXCEPT !.title = course_data["title"],
                                 !.description = course_data["description"],
                                 !.duration = course_data["duration"],
                                 !.format = course_data["format"],
                                 !.price = course_data["price"],
                                 !.category = course_data["category"],
                                 !.updated_at = clock]]
              /\ result' = FlagResult("update_course", course_id, course_data,
                                  TRUE, "")
              /\ UNCHANGED <<feedback, next_course_id, next_feedback_id,
                             openai_client, clock, add_calls, freed>>
    ELSE IF KeyError(course_data)
         THEN /\ result' = FlagResult("update_course", course_id, course_data,
                                  FALSE, "KeyError")
              /\ UNCHANGED <<store, clock, add_calls, freed>>
         ELSE /\ courses' =
                    [k \in DOMAIN courses \cup {course_id} |->
                       IF k = course_id
                       THEN [id |-> course_id,
                             title |-> course_data["title"],
                             description |-> course_data["description"],
                             duration |-> course_data["duration"],
                             format |-> course_data["format"],
                             price |-> course_data["price"],
                             category |-> course_data["category"],
                             created_at |-> clock,
                             updated_at |-> clock]
                       ELSE courses[k]]
              /\ result' = FlagResult("update_course", course_id, course_data,
                                  TRUE, "")
              /\ UNCHANGED <<feedback, next_course_id, next_feedback_id,
                             openai_client, clock, add_calls, freed>>

\* Variant of update_course: the creation timestamp is refreshed too.
update_course_restamp(course_id, course_data) ==
    IF course_id \in DOMAIN courses
    THEN IF KeyError(course_data)
         THEN /\ result' = FlagResult("update_course", course_id, course_data,
                                  FALSE, "KeyError")
              /\ UNCHANGED <<store, clock, add_calls, freed>>
         ELSE /\ courses' =
                    [courses EXCEPT ![course_id] =
                       [@ EXCEPT !.title = course_data["title"],
                                 !.description = course_data["description"],
                                 !.duration = course_data["duration"],
                                 !.format = course_data["format"],
                                 !.price = course_data["price"],
                                 !.category = course_data["category"],
                                 !.created_at = clock,
                                 !.updated_at = clock]]
              /\ result' = FlagResult("update_course", course_id, course_data,
                                  TRUE, "")
              /\ UNCHANGED <<feedback, next_course_id, next_feedback_id,
                             openai_client, clock, add_calls, freed>>
    ELSE /\ result' = FlagResult("update_course", course_id, course_data, FALSE, "")
         /\ UNCHANGED <<store, clock, add_calls, freed>>

update_course(course_id, course_data) ==
    IF course_id \in DOMAIN courses
    THEN IF KeyError(course_data)
         THEN /\ result' = FlagResult("update_course", course_id, course_data,
                                  FALSE, "KeyError")
              /\ UNCHANGED <<store, clock, add_calls, freed>>
         ELSE /\ courses' =
                    [courses EXCEPT ![course_id] =
                       [@ EXCEPT !.title = course_data["title"],
                                 !.description = course_data["description"],
                                 !.duration = course_data["duration"],
                                 !.format = course_data["format"],
                                 !.price = course_data["price"],
                                 !.category = course_data["category"],
                                 !.updated_at = clock]]
              /\ result' = FlagResult("update_course", course_id, course_data,
                                  TRUE, "")
              /\ UNCHANGED <<feedback, next_course_id, next_feedback_id,
                             openai_client, clock, add_calls, freed>>
    ELSE /\ result' = FlagResult("update_course", course_id, course_data, FALSE, "")
         /\ UNCHANGED <<store, clock, add_calls, freed>>

delete_course(course_id) ==
    IF course_id \in DOMAIN courses
    THEN /\ courses' = [k \in DOMAIN courses \ {course_id} |-> courses[k]]
         /\ freed' = freed \cup {course_id}
         /\ result' = FlagResult("delete_course", course_id, NoData, TRUE, "")
         /\ UNCHANGED <<feedback, next_course_id, next_feedback_id,
                        openai_client, clock, add_calls>>
    ELSE /\ result' = FlagResult("delete_course", course_id, NoData, FALSE, "")
         /\ UNCHANGED <<store, clock, add_calls, freed>>

\* Variant of add_feedback: the counter is advanced before the record is
\* built, so a refused rating consumes an identifier.
add_feedback_early_increment(feedback_data) ==
    LET feedback_id == next_feedback_id
        rating == int(feedback_data["rating"])
    IN  IF ~rating.ok
        THEN /\ next_feedback_id' = next_feedback_id + 1
             /\ result' = Result("add_feedback", 0, feedback_data, 0, "ValueError")
             /\ UNCHANGED <<courses, feedback, next_course_id, openai_client,
                            clock, add_calls, freed>>
        ELSE /\ feedback' = Append(feedback,
                    [id |-> feedback_id,
                     name |-> feedback_data["name"],
                     email |-> feedback_data["email"],
                     course |-> feedback_data["course"],
                     rating |-> rating.val,
                     feedback |-> feedback_data["feedback"],
                     created_at |-> clock])
             /\ next_feedback_id' = next_feedback_id + 1
             /\ result' = Result("add_feedback", 0, feedback_data, feedback_id, "")
             /\ UNCHANGED <<courses, next_course_id, openai_client, clock,
                            add_calls, freed>>

add_feedback(feedback_data) ==
    LET feedback_id == next_feedback_id
        rating == int(feedback_data["rating"])
    IN  IF ~rating.ok
        THEN /\ result' = Result("add_feedback", 0, feedback_data, 0, "ValueError")
             /\ UNCHANGED <<store, clock, add_calls, freed>>
        ELSE /\ feedback' = Append(feedback,
                    [id |-> feedback_id,
                     name |-> feedback_data["name"],
                     email |-> feedback_data["email"],
                     course |-> feedback_data["course"],
                     rating |-> rating.val,
                     feedback |-> feedback_data["feedback"],
                     created_at |-> clock])
             /\ next_feedback_id' = next_feedback_id + 1
             /\ result' = Result("add_feedback", 0, feedback_data, feedback_id, "")
             /\ UNCHANGED <<courses, next_course_id, openai_client, clock,
                            add_calls, freed>>

\* [s.strip('- ').strip() for s in suggestions if s.strip()]
RECURSIVE clean_lines(_)
clean_lines(lines) ==
    IF lines = <<>> THEN <<>>
    ELSE IF strip(Head(lines)) # <<>>
         THEN <<strip(strip_chars(Head(lines), {"-", " "}))>>
              \o clean_lines(Tail(lines))
         ELSE clean_lines(Tail(lines))

\* What generate_course_suggestions returns (ret), or that an exception
\* escapes it (exc).
course_suggestions(client, category, backend) ==
    IF ~client THEN [ret |-> SuggestionsNoClient, exc |-> ""]
    ELSE IF backend.kind = "content"
         THEN [ret |-> clean_lines(split(strip(backend.content), "\n")),
               exc |-> ""]
         \* the call raised, or None.strip() raised: caught by the except
         ELSE [ret |-> SuggestionsOnError, exc |-> ""]

generate_course_suggestions(category, backend) ==
    /\ LET r == course_suggestions(openai_client, category, backend)
       IN  result' = ListResult("generate_course_suggestions", 0, backend,
                            r.ret, r.exc)
    /\ UNCHANGED <<store, clock, add_calls, freed>>

\* Variant of feedback_summary: the try has no except, so a failing call
\* raises out of summarize_feedback.
feedback_summary_uncaught(client, feedback_list, backend) ==
    IF feedback_list = <<>> \/ ~client
    THEN [ret |-> NoFeedbackMessage, exc |-> ""]
    ELSE IF backend.kind = "content"
         THEN [ret |-> strip(backend.content), exc |-> ""]
         ELSE [ret |-> <<>>, exc |-> "Exception"]

\* What summarize_feedback returns (ret), or that an exception escapes it
\* (exc).
feedback_summary(client, feedback_list, backend) ==
    IF feedback_list = <<>> \/ ~client
    THEN [ret |-> NoFeedbackMessage, exc |-> ""]
    ELSE IF backend.kind = "content"
         THEN [ret |-> strip(backend.content), exc |-> ""]
         \* the call raised, or None.strip() raised: caught by the except
         ELSE [ret |-> UnableMessage, exc |-> ""]

summarize_feedback(backend) ==
    /\ LET r == feedback_summary(openai_client, feedback, backend)
       IN  result' = TextResult("summarize_feedback", 0, backend, r.ret, r.exc)
    /\ UNCHANGED <<store, clock, add_calls, freed>>

\* CourseManager.setup_openai called on the existing store.
manager_setup_openai(api_key, ctor_ok) ==
    /\ openai_client' = setup_openai(openai_client, api_key, ctor_ok)
    /\ result' = Result("setup_openai", 0, NoData, 0, "")
    /\ UNCHANGED <<courses, feedback, next_course_id, next_feedback_id,
                   clock, add_calls, freed>>

\* The clock readings of n successive datetime.now() calls, the first not
\* before second `from`: time does not run backwards between two of them.
ClockReads(n, from) ==
    {r \in [1..n -> from..MaxClock] : \A i \in 1..(n - 1) : r[i] <= r[i + 1]}

\* The course map after load_sample_data: one add_course call per entry of
\* sample_courses, in order, the first under identifier first_id; reads are
\* the clock readings of the calls, two per call.
loaded_courses(before, first_id, reads) ==
    LET ids == first_id..(first_id + Len(sample_courses) - 1)
    IN  [k \in DOMAIN before \cup ids |->
           IF k \in ids
           THEN LET n == k - first_id + 1
                IN  [id |-> k,
                     title |-> sample_courses[n]["title"],
                     description |-> sample_courses[n]["description"],
                     duration |-> sample_courses[n]["duration"],
                     format |-> sample_courses[n]["format"],
                     price |-> sample_courses[n]["price"],
                     category |-> sample_courses[n]["category"],
                     created_at |-> reads[2 * n - 1],
                     updated_at |-> reads[2 * n]]
           ELSE before[k]]

\* CourseManager.load_sample_data called on the existing store.
load_sample_data(reads) ==
    /\ courses' = loaded_courses(courses, next_course_id, reads)
    /\ next_course_id' = next_course_id + Len(sample_courses)
    /\ clock' = reads[2 * Len(sample_courses)]
    /\ add_calls' = add_calls + Len(sample_courses)
    /\ result' = Result("load_sample_data", 0, NoData, 0, "")
    /\ UNCHANGED <<feedback, next_feedback_id, openai_client, freed>>

\* A second passes.
Tick ==
    /\ clock < MaxClock
    /\ clock' = clock + 1
    /\ result' = Result("tick", 0, NoData, 0, "")
    /\ UNCHANGED <<store, add_calls, freed>>

-----------------------------------------------------------------------------
(* app.py: add_course and add_feedback run by concurrent worker threads. *)
(* app.run serves each request on its own thread; the interpreter may     *)
(* switch threads between any two bytecodes, so each thread step below is *)
(* one read or one write of shared state.                                 *)

\* Worker threads serving requests at the same time.
NThreads == 2
Threads == 1..NThreads

ThreadIdle ==
    [pc |-> "idle", op |-> "", data |-> NoData, id |-> 0, rating |-> 0,
     created_at |-> 0, updated_at |-> 0, tmp |-> 0, ret |-> 0, exc |-> ""]

\* Full course_data values the threads submit.
ThreadCourseInputs == {sample_courses[2], NewCourse}

\* A request arrives and its handler calls add_course or add_feedback.
ThreadCall(t) ==
    /\ threads[t].pc = "idle"
    /\ \/ \E d \in ThreadCourseInputs :
             threads' = [threads EXCEPT ![t] =
                [@ EXCEPT !.pc = "read_id", !.op = "add_course", !.data = d]]
       \/ \E d \in FeedbackInputs :
             threads' = [threads EXCEPT ![t] =
                [@ EXCEPT !.pc = "read_id", !.op = "add_feedback", !.data = d]]
    /\ UNCHANGED <<chatbot_client, chat, store, clock, result, add_calls, freed>>

\* course_id = self.next_course_id / feedback_id = self.next_feedback_id
ThreadReadId(t) ==
    /\ threads[t].pc = "read_id"
    /\ threads' = [threads EXCEPT ![t] =
          [@ EXCEPT !.pc = "read_created",
                    !.id = IF threads[t].op = "add_course"
                           THEN next_course_id ELSE next_feedback_id]]
    /\ UNCHANGED <<chatbot_client, chat, store, clock, result, add_calls, freed>>

\* The record is built before it is stored.  "created_at": datetime.now():
\* the thread reads the clock.  In add_feedback the rating is coerced just
\* before, and a refused rating raises out of the call.
ThreadReadCreated(t) ==
    /\ threads[t].pc = "read_created"
    /\ LET th == threads[t]
           rating == int(th.data["rating"])
       IN  IF th.op = "add_course"
           THEN threads' = [threads EXCEPT ![t] =
                   [@ EXCEPT !.pc = "read_updated", !.created_at = clock]]
           ELSE IF ~rating.ok
           THEN threads' = [threads EXCEPT ![t] =
                   [@ EXCEPT !.pc = "done", !.exc = "ValueError"]]
           ELSE threads' = [threads EXCEPT ![t] =
                   [@ EXCEPT !.pc = "insert", !.rating = rating.val,
                             !.created_at = clock]]
    /\ UNCHANGED <<chatbot_client, chat, store, clock, result, add_calls, freed>>

\* "updated_at": datetime.now() of add_course: a second read of the clock.
ThreadReadUpdated(t) ==
    /\ threads[t].pc = "read_updated"
    /\ threads' = [threads EXCEPT ![t] =
          [@ EXCEPT !.pc = "insert", !.updated_at = clock]]
    /\ UNCHANGED <<chatbot_client, chat, store, clock, result, add_calls, freed>>

\* self.courses[course_id] = {...} / self.feedback.append(feedback): the
\* record built from the earlier reads is stored.
ThreadInsert(t) ==
    /\ threads[t].pc = "insert"
    /\ LET th == threads[t]
       IN  IF th.op = "add_course"
           THEN /\ courses' =
                      [k \in DOMAIN courses \cup {th.id} |->
                         IF k = th.id
                         THEN [id |-> th.id,
                               title |-> th.data["title"],
                               description |-> th.data["description"],
                               duration |-> th.data["duration"],
                               format |-> th.data["format"],
                               price |-> th.data["price"],
                               category |-> th.data["category"],
                               created_at |-> th.created_at,
                               updated_at |-> th.updated_at]
                         ELSE courses[k]]
                /\ UNCHANGED feedback
           ELSE /\ feedback' = Append(feedback,
                      [id |-> th.id,
                       name |-> th.data["name"],
                       email |-> th.data["email"],
                       course |-> th.data["course"],
                       rating |-> th.rating,
                       feedback |-> th.data["feedback"],
                       created_at |-> th.created_at])
                /\ UNCHANGED courses
    /\ threads' = [threads EXCEPT ![t] = [@ EXCEPT !.pc = "load_next"]]
    /\ UNCHANGED <<chatbot_client, chat, next_course_id, next_feedback_id,
                   openai_client, clock, result, add_calls, freed>>

\* self.next_course_id += 1, first half: load the attribute.
ThreadLoadNext(t) ==
    /\ threads[t].pc = "load_next"
    /\ threads' = [threads EXCEPT ![t] =
          [@ EXCEPT !.pc = "store_next",
                    !.tmp = IF threads[t].op = "add_course"
                            THEN next_course_id ELSE next_feedback_id]]
    /\ UNCHANGED <<chatbot_client, chat, store, clock, result, add_calls, freed>>

\* self.next_course_id += 1, second half: store the sum.
ThreadStoreNext(t) ==
    /\ threads[t].pc = "store_next"
    /\ IF threads[t].op = "add_course"
       THEN /\ next_course_id' = threads[t].tmp + 1
            /\ UNCHANGED next_feedback_id
       ELSE /\ next_feedback_id' = threads[t].tmp + 1
            /\ UNCHANGED next_course_id
    /\ threads' = [threads EXCEPT ![t] = [@ EXCEPT !.pc = "return"]]
    /\ UNCHANGED <<chatbot_client, chat, courses, feedback, openai_client,
                   clock, result, add_calls, freed>>

\* return course_id / return feedback_id
ThreadReturn(t) ==
    /\ threads[t].pc = "return"
    /\ threads' = [threads EXCEPT ![t] =
          [@ EXCEPT !.pc = "done", !.ret = threads[t].id]]
    /\ UNCHANGED <<chatbot_client, chat, store, clock, result, add_calls, freed>>

-----------------------------------------------------------------------------
(* Specifications *)

\* CourseManager.__init__: empty stores, counters at 1, then setup_openai
\* and load_sample_data, whose three add_course calls read the clock six
\* times while seconds may pass.
LoadedCourses(reads) == loaded_courses(<<>>, 1, reads)

Init ==
    /\ chatbot_client = FALSE
    /\ chat = ChatIdle
    /\ openai_client \in BOOLEAN
    /\ \E reads \in ClockReads(2 * Len(sample_courses), 0) :
          /\ courses = LoadedCourses(reads)
          /\ clock = reads[2 * Len(sample_courses)]
    /\ feedback = <<>>
    /\ next_course_id = Len(sample_courses) + 1
    /\ next_feedback_id = 1
    /\ result = Result("init", 0, NoData, 0, "")
    /\ add_calls = Len(sample_courses)
    /\ freed = {}
    /\ threads = [t \in Threads |-> ThreadIdle]

ChatFrame == UNCHANGED <<chatbot_client, chat, threads>>

AddCourse ==
    /\ next_course_id <= MaxCourseId
    /\ \E d \in CourseInputs, later \in {clock, clock + 1} :
          later <= MaxClock /\ add_course(d, later)
    /\ ChatFrame

LoadSampleData ==
    /\ next_course_id <= MaxCourseId
    /\ \E reads \in ClockReads(2 * Len(sample_courses), clock) :
          load_sample_data(reads)
    /\ ChatFrame

GetCourse == (\E id \in LookupIds : get_course(id)) /\ ChatFrame

UpdateCourse ==
    (\E id \in CourseIds, d \in CourseInputs : update_course(id, d)) /\ ChatFrame

DeleteCourse == (\E id \in CourseIds : delete_course(id)) /\ ChatFrame

\* The bound caps the length of the list; a call whose rating is refused adds
\* nothing and is made at any length.
AddFeedback ==
    /\ \E d \in FeedbackInputs :
          /\ Len(feedback) < MaxFeedback \/ ~int(d["rating"]).ok
          /\ add_feedback(d)
    /\ ChatFrame

GenerateCourseSuggestions ==
    /\ \E category \in {"Executive"}, b \in HelperBackends :
          generate_course_suggestions(category, b)
    /\ ChatFrame

SummarizeFeedback ==
    (\E b \in HelperBackends : summarize_feedback(b)) /\ ChatFrame

SetupOpenai ==
    /\ \E api_key \in BOOLEAN, ctor_ok \in BOOLEAN :
          manager_setup_openai(api_key, ctor_ok)
    /\ ChatFrame

Time == Tick /\ ChatFrame

\* The store, one call at a time.
Next ==
    \/ AddCourse
    \/ LoadSampleData
    \/ GetCourse
    \/ UpdateCourse
    \/ DeleteCourse
    \/ AddFeedback
    \/ GenerateCourseSuggestions
    \/ SummarizeFeedback
    \/ SetupOpenai
    \/ Time

Spec == Init /\ [][Next]_vars

\* The chatbot, one call at a time.
NextChat == ChatbotInit \/ GetResponse \/ FindIntent

\* The chatbot reads neither the store nor the clock (chatbot.py also runs
\* on its own, without a store): its calls are followed from the initial
\* states in which construction took less than a second.
InitChat == Init /\ clock = 0

SpecChat == InitChat /\ [][NextChat]_vars

\* The store under concurrent requests.
NextConc ==
    \E t \in Threads :
        \/ ThreadCall(t)
        \/ ThreadReadId(t)
        \/ ThreadReadCreated(t)
        \/ ThreadReadUpdated(t)
        \/ ThreadInsert(t)
        \/ ThreadLoadNext(t)
        \/ ThreadStoreNext(t)
        \/ ThreadReturn(t)
        \/ Time

SpecConc == Init /\ [][NextConc]_vars

-----------------------------------------------------------------------------
(* Properties of the chatbot, checked under SpecChat *)

\* A get_response call has been made on an input that is not blank.
NonBlankCall ==
    /\ chat.op = "get_response"
    /\ \E i \in 1..Len(chat.user_input) : chat.user_input[i] \notin Whitespace

\* The backend was configured and returned a message with content.
BackendAnswered == chatbot_client /\ chat.backend.kind = "content"

\* The reply of the fallback chain below the generated text.
CannedOrMenu ==
    IF chat.intent # NoIntent THEN faq_data[chat.intent] ELSE MenuMessage

\* C1 as stated: for a non-blank input, whenever the configured backend
\* succeeds with some content, that content is the reply verbatim.
C1_VerbatimBackendOutput ==
    (NonBlankCall /\ BackendAnswered /\ chat.backend.content # <<>>)
        => chat.reply = chat.backend.content

\* C1 amended: for a non-blank input the reply is the backend's content with
\* surrounding whitespace stripped when the backend is configured, succeeds
\* and that stripped content is not empty; else the matched topic's canned
\* answer when an intent was resolved; else the menu message.  Exactly the
\* corresponding return branch fires.
C1_ReplyPriority ==
    NonBlankCall =>
        LET generated == IF BackendAnswered THEN strip(chat.backend.content)
                         ELSE <<>>
        IN  /\ ~chat.exc
            /\ IF generated # <<>>
               THEN chat.reply = generated /\ chat.branch = "ai"
               ELSE IF chat.intent # NoIntent
               THEN chat.reply = faq_data[chat.intent] /\ chat.branch = "faq"
               ELSE chat.reply = MenuMessage /\ chat.branch = "menu"

\* C1 witness: the backend answers "Hi" between a unit separator and space
\* and a newline, to an input with a matched intent, and the reply is "Hi",
\* not the canned answer.
C1_Witness ==
    /\ NonBlankCall /\ BackendAnswered
    /\ chat.backend.content = <<""," ","H","i","\n">>
    /\ chat.intent # NoIntent
    /\ chat.reply = <<"H","i">>

\* C2: for a non-blank input, when the backend is not configured, or its call
\* raises, or it returns no content or empty content, no exception escapes
\* get_response and the reply is the canned answer of the matched intent, or
\* the menu message when no intent matched: the same reply in each of these
\* cases, and never the empty string.
C2_FallbackWithoutException ==
    (/\ NonBlankCall
     /\ \/ ~chatbot_client
        \/ chat.backend.kind \in {"raise", "null"}
        \/ chat.backend.content = <<>>)
        => /\ ~chat.exc
           /\ chat.reply = CannedOrMenu
           /\ chat.reply # <<>>

\* C2 witness: the configured backend raised on an input with a matched
\* intent and the canned answer came back.
C2_Witness ==
    /\ NonBlankCall
    /\ chatbot_client /\ chat.backend.kind = "raise"
    /\ chat.intent = "mentors"
    /\ chat.reply = faq_data["mentors"]
    /\ ~chat.exc

\* C3: for an input that is empty or all whitespace the reply is the
\* prompt-for-input message, whatever the backend configuration and answer,
\* and neither find_intent nor the backend has been called.
C3_BlankInputPrompt ==
    (/\ chat.op = "get_response"
     /\ \A i \in 1..Len(chat.user_input) : chat.user_input[i] \in Whitespace)
        => /\ chat.reply = PromptForInput
           /\ chat.branch = "prompt"
           /\ chat.calls = <<>>
           /\ chat.intent = NoIntent
           /\ ~chat.exc

\* C3 witness: a non-empty input of space, vertical tab and newline, with
\* a configured backend that would have answered.
C3_Witness ==
    /\ chat.op = "get_response"
    /\ chat.user_input = <<" ","","\n">>
    /\ BackendAnswered /\ chat.backend.content = <<"H","i">>
    /\ chat.reply = PromptForInput

\* s has an occurrence of sub at some position.
Occurs(sub, s) ==
    \E i \in 1..(Len(s) - Len(sub) + 1) : SubSeq(s, i, i + Len(sub) - 1) = sub

\* The order of the topic table.
TopicOrder == <<"programs", "duration", "format", "certificates", "mentors">>

\* Positions in TopicOrder of the topics with a keyword occurring in the
\* lower-cased text.
TopicsOccurring(text) ==
    {n \in 1..Len(TopicOrder) :
        \E e \in 1..Len(keywords) :
            /\ keywords[e].intent = TopicOrder[n]
            /\ \E k \in 1..Len(keywords[e].keywords) :
                  Occurs(keywords[e].keywords[k], lower(text))}

\* C4: the intent found for an input is the earliest topic, in the order
\* programs, duration, format, certificates, mentors, one of whose keywords
\* occurs in the lower-cased input, wherever the keywords sit; it is absent
\* exactly when no keyword of any topic occurs.
C4_FirstTopicInTableOrder ==
    (chat.op = "find_intent" \/ NonBlankCall) =>
        LET occurring == TopicsOccurring(chat.user_input)
        IN  IF occurring = {} THEN chat.intent = NoIntent
            ELSE chat.intent = TopicOrder[Min(occurring)]

\* C4 witness: in "badgeprogram" a certificates keyword precedes a programs
\* keyword and the intent is programs.
C4_Witness ==
    /\ chat.op = "find_intent"
    /\ chat.user_input = <<"b","a","d","g","e","p","r","o","g","r","a","m">>
    /\ chat.intent = "programs"

\* A get_response call on "how long is the program" without a backend.
HowLongCall ==
    /\ chat.op = "get_response"
    /\ chat.user_input = HowLongIsTheProgram
    /\ ~chatbot_client

\* C5 as stated: without a backend, "how long is the program" resolves to the
\* duration topic and the reply is the duration answer.
C5_HowLongIsDuration ==
    HowLongCall =>
        chat.intent = "duration" /\ chat.reply = faq_data["duration"]

\* C5 amended: without a backend, "how long is the program" resolves to the
\* programs topic (its keyword "program" occurs too and programs precedes
\* duration in the table) and the reply is the programs answer verbatim.
C5_HowLongIsPrograms ==
    HowLongCall =>
        chat.intent = "programs" /\ chat.reply = faq_data["programs"]

\* C5 witness: the call was made and both keywords occur in the input.
C5_Witness ==
    /\ HowLongCall
    /\ Occurs(<<"l","o","n","g">>, chat.user_input)
    /\ Occurs(<<"p","r","o","g","r","a","m">>, chat.user_input)
    /\ chat.branch = "faq"

-----------------------------------------------------------------------------
(* Properties of the store, one call at a time, checked under Spec *)

\* C6: the k-th add_course call that adds a course (the constructor's three
\* included) returns identifier k, so the identifiers are 1, 2, 3, ... in call
\* order; the id field of every stored record equals its key; and add_course
\* never returns an identifier that delete_course has freed.
C6_SequentialIdentifiers ==
    /\ \A k \in DOMAIN courses : courses[k].id = k
    /\ (result.op = "add_course" /\ result.exc = "") =>
          /\ result.ret = add_calls
          /\ result.ret \notin freed
          /\ result.ret \in DOMAIN courses

\* C6 witness: add_course returned 4 after course 2 had been deleted.
C6_Witness ==
    /\ result.op = "add_course" /\ result.exc = ""
    /\ result.ret = Len(sample_courses) + 1
    /\ 2 \in freed

\* The step is a call of update_course or delete_course on an identifier that
\* is not in the store.
AbsentIdCall ==
    /\ result'.op \in {"update_course", "delete_course"}
    /\ result'.course_id \notin DOMAIN courses

\* C7: update_course and delete_course on an identifier that is not in the
\* store return False and leave the course map with all its records, the
\* course id counter, the feedback list and the feedback id counter unchanged.
C7_AbsentIdMutatesNothing ==
    [][AbsentIdCall =>
          /\ result'.ok = FALSE
          /\ result'.exc = ""
          /\ courses' = courses
          /\ next_course_id' = next_course_id
          /\ feedback' = feedback
          /\ next_feedback_id' = next_feedback_id]_vars

\* C7 witness: update_course was refused for an identifier deleted earlier,
\* with feedback in the store.
C7_Witness ==
    /\ result.op = "update_course" /\ result.ok = FALSE
    /\ result.course_id \in freed
    /\ result.data = NewCourse
    /\ feedback # <<>>

\* A helper returned in one of its fallback conditions: no client, or the
\* backend call raised, or (for the summary) no feedback.
SuggestionFallback ==
    /\ result.op = "generate_course_suggestions"
    /\ (~openai_client \/ result.data.kind = "raise")
SummaryFallback ==
    /\ result.op = "summarize_feedback"
    /\ (feedback = <<>> \/ ~openai_client \/ result.data.kind = "raise")

\* C8 as stated: in every fallback condition a helper returns the one value
\* it returns without a backend.
C8_OneFallbackValue ==
    /\ SuggestionFallback => result.list = SuggestionsNoClient
    /\ SummaryFallback => result.text = NoFeedbackMessage

\* C8 amended: in every fallback condition a helper returns, without raising,
\* a fixed value that depends on the condition.  generate_course_suggestions
\* returns the four-title list without a backend and the first two of those
\* titles when the call raises; summarize_feedback returns "No feedback
\* available for summary." without feedback or without a backend and "Unable
\* to generate feedback summary at this time." when the call raises.
C8_FallbackPerCondition ==
    /\ SuggestionFallback =>
          /\ result.exc = ""
          /\ result.list = IF ~openai_client THEN SuggestionsNoClient
                          ELSE SubSeq(SuggestionsNoClient, 1, 2)
    /\ SummaryFallback =>
          /\ result.exc = ""
          /\ result.text = IF feedback = <<>> \/ ~openai_client
                          THEN NoFeedbackMessage
                          ELSE UnableMessage

\* C8 witness: with a backend and feedback in the store the summary call
\* raised and the "Unable ..." message came back.
C8_Witness ==
    /\ SummaryFallback
    /\ openai_client /\ feedback # <<>>
    /\ result.text = UnableMessage
    /\ result.text # NoFeedbackMessage

\* The step is a call of update_course on an identifier in the store, with
\* all six fields supplied.
PresentIdUpdate ==
    /\ result'.op = "update_course"
    /\ result'.course_id \in DOMAIN courses
    /\ \A i \in 1..Len(Fields) : Fields[i] \in DOMAIN result'.data

\* C9: update_course on an identifier in the store returns True, overwrites
\* the six mutable fields with the supplied values, sets updated_at to the
\* current time, and leaves unchanged the record's id and created_at, every
\* other record, the set of identifiers, the course id counter and all
\* feedback.
C9_UpdateFrame ==
    [][PresentIdUpdate =>
          LET id == result'.course_id
          IN  /\ result'.ok = TRUE
              /\ \A i \in 1..Len(Fields) :
                    courses'[id][Fields[i]] = result'.data[Fields[i]]
              /\ courses'[id].updated_at = clock'
              /\ courses'[id].id = courses[id].id
              /\ courses'[id].created_at = courses[id].created_at
              /\ DOMAIN courses' = DOMAIN courses
              /\ \A k \in DOMAIN courses \ {id} : courses'[k] = courses[k]
              /\ next_course_id' = next_course_id
              /\ feedback' = feedback
              /\ next_feedback_id' = next_feedback_id]_vars

\* C9 witness: a sample course was updated a second after its creation, with
\* feedback in the store.
C9_Witness ==
    /\ result.op = "update_course" /\ result.ok = TRUE
    /\ result.course_id = 2
    /\ courses[2].title = NewCourse["title"]
    /\ courses[2].created_at = 0
    /\ courses[2].updated_at = 1
    /\ feedback # <<>>

-----------------------------------------------------------------------------
(* Properties of the store under concurrent requests, checked under SpecConc *)

AllReturned == \A t \in Threads : threads[t].pc = "done"

\* C10: whatever the interleaving, once every call has returned, any two
\* add_course calls (likewise add_feedback calls) returned distinct
\* identifiers and the record of every call is in the store.
C10_NoLostInsert ==
    AllReturned =>
        /\ \A t, u \in Threads :
              (/\ t # u
               /\ threads[t].op = threads[u].op
               /\ threads[t].exc = "" /\ threads[u].exc = "")
                  => threads[t].ret # threads[u].ret
        /\ \A t \in Threads :
              (threads[t].op = "add_course") =>
                  /\ threads[t].ret \in DOMAIN courses
                  /\ courses[threads[t].ret].title = threads[t].data["title"]
        /\ \A t \in Threads :
              (threads[t].op = "add_feedback" /\ threads[t].exc = "") =>
                  \E i \in 1..Len(feedback) :
                      /\ feedback[i].id = threads[t].ret
                      /\ feedback[i].rating = int(threads[t].data["rating"]).val

-----------------------------------------------------------------------------
(* Properties of calls with bad arguments, checked under Spec *)

\* C11: add_course or update_course called with one of the six required
\* fields missing reports the error to its caller as a return value (a
\* boolean or an absent value); no exception escapes the call.
C11_MissingFieldIsReturned ==
    (/\ result.op \in {"add_course", "update_course"}
     /\ \E i \in 1..Len(Fields) : Fields[i] \notin DOMAIN result.data)
        => result.exc = ""

\* C12: add_feedback with a rating that int() refuses raises ValueError and
\* persists nothing: the feedback list and the feedback id counter are
\* unchanged, so the next accepted call gets the identifier this call would
\* have got.  With a rating int() accepts, the entry is appended at the end
\* of the list with the coerced rating and the next identifier of the
\* feedback sequence 1, 2, 3, ..., whatever the course id counter is.  In
\* both cases the course map and the course id counter are unchanged.
C12_RatingCoercedBeforePersisting ==
    [][result'.op = "add_feedback" =>
          LET rating == int(result'.data["rating"])
              n == Len(feedback)
          IN  /\ courses' = courses
              /\ next_course_id' = next_course_id
              /\ IF ~rating.ok
                 THEN /\ result'.exc = "ValueError"
                      /\ feedback' = feedback
                      /\ next_feedback_id' = next_feedback_id
                 ELSE /\ result'.exc = ""
                      /\ result'.ret = next_feedback_id
                      /\ result'.ret = n + 1
                      /\ next_feedback_id' = next_feedback_id + 1
                      /\ Len(feedback') = n + 1
                      /\ SubSeq(feedback', 1, n) = feedback
                      /\ feedback'[n + 1].id = result'.ret
                      /\ feedback'[n + 1].rating = rating.val]_vars

\* C12 witness: the rating 0x1c "7", which str.strip() would reduce to "7"
\* and int() refuses, was refused after two accepted calls had appended
\* entries 1 and 2 in that order, the second with the coerced rating 10, and
\* after a course had been added since construction; the next feedback
\* identifier is still one past the length of the list.
C12_Witness ==
    /\ result.op = "add_feedback" /\ result.exc = "ValueError"
    /\ result.data["rating"] = <<"","7">>
    /\ Len(feedback) = 2
    /\ feedback[1].id = 1 /\ feedback[2].id = 2
    /\ feedback[2].rating = 10
    /\ next_feedback_id = Len(feedback) + 1
    /\ next_course_id > Len(sample_courses) + 1

=============================================================================
